---- MODULE Spec2Model ----
(***************************************************************************)
(* Pedigree Organizer API (src/main.py, src/schemas.py).                   *)
(*                                                                         *)
(* The state is the "dog" collection of the record store and the response  *)
(* of the last request.  Every request handler of src/main.py is one       *)
(* action.  Text (names, identifiers, page titles, search patterns) is a   *)
(* sequence of one-character strings, so that parsing, case folding,       *)
(* splitting and pattern matching are computed character by character.     *)
(* The store connection is taken to be established (db is not None).       *)
(***************************************************************************)
EXTENDS Integers, Sequences, FiniteSets, TLC

VARIABLES store, resp

vars == <<store, resp>>

(***************************************************************************)
(* Bounds of the model.                                                    *)
(***************************************************************************)
\* Most records the collection holds in Spec, SpecPedigree, SpecSearch and
\* SpecImport.
MaxDogs == 2
\* Longest sire chain (the N of a chain of N + 1 dogs) built in SpecChain.
MaxChain == 2
\* Largest depth parameter of a pedigree request.
MaxDepth == 2
\* Largest limit parameter of a list request.
MaxLimit == 2
\* Longest page title an imported page carries.
MaxTitleLen == 3
\* Longest search pattern of a list request.
MaxPatternLen == 2
\* Length of the textual form of a store identifier (24 in bson).
OidLen == 2

(***************************************************************************)
(* Text.                                                                   *)
(***************************************************************************)
\* Python's None, for an Optional[str] field: no text is equal to it.
None == <<"None">>

\* JSON null as the value of a "sire" or "dam" key of a pedigree tree.
Null == [null |-> TRUE]

\* The result of find_one when no document matches (Python's None).
NoDoc == [nodoc |-> TRUE]

\* str.lower / case folding of one character (the "i" option of $regex,
\* and bytes.fromhex reading hexadecimal digits of either case).
LowerChar(c) ==
    CASE c = "A" -> "a"
      [] c = "B" -> "b"
      [] c = "C" -> "c"
      [] c = "D" -> "d"
      [] c = "E" -> "e"
      [] c = "F" -> "f"
      [] c = "R" -> "r"
      [] c = "X" -> "x"
      [] OTHER -> c

Lower(s) == [i \in 1..Len(s) |-> LowerChar(s[i])]

HexDigits == {"0", "1", "2", "3", "4", "5", "6", "7", "8", "9",
              "a", "b", "c", "d", "e", "f"}

Digit == <<"1", "2", "3", "4", "5", "6", "7", "8", "9">>

\* Python truthiness of an Optional[str]: None and "" are falsy.
Truthy(s) == s # None /\ s # <<>>

(***************************************************************************)
(* bson.ObjectId: the store's identifier format.                           *)
(***************************************************************************)
\* ObjectId(s) raises InvalidId unless s is OidLen hexadecimal digits.
ObjectIdValid(s) ==
    /\ s # None
    /\ Len(s) = OidLen
    /\ \A i \in 1..Len(s) : LowerChar(s[i]) \in HexDigits

\* The value ObjectId(s) of a valid s: its digits, case folded.
ObjectId(s) == Lower(s)

\* str(oid): the lower-case hexadecimal form.
ObjectIdStr(oid) == oid

\* The identifier the store assigns to the n-th inserted document.
NewObjectId(n) == [i \in 1..OidLen |-> IF i = OidLen THEN Digit[n] ELSE "a"]

(***************************************************************************)
(* The record store.                                                       *)
(***************************************************************************)
\* db["dog"].find_one({"_id": oid}): the first document with that key.
find_one(s, oid) ==
    LET hits == SelectSeq(s, LAMBDA d : d._id = oid)
    IN  IF hits = <<>> THEN NoDoc ELSE hits[1]

\* create_document("dog", dog): insert the validated fields under a fresh
\* identifier; returns the new collection and the identifier's text.
create_document(s, dog) ==
    LET oid == NewObjectId(Len(s) + 1)
    IN  [store |-> Append(s, [_id |-> oid] @@ dog), id |-> ObjectIdStr(oid)]

\* to_public(doc): the stored fields with "_id" replaced by "id", its text.
to_public(doc) ==
    IF doc = NoDoc THEN doc
    ELSE [id         |-> ObjectIdStr(doc._id),
          name       |-> doc.name,
          sire_id    |-> doc.sire_id,
          dam_id     |-> doc.dam_id,
          source_url |-> doc.source_url,
          notes      |-> doc.notes]

\* DogCreate / Dog: the only required field is name, which must be a str.
DogValid(payload) == payload.name # None

\* Dog(**data): the validated record (every declared field, defaults filled).
Dog(payload) ==
    [name       |-> payload.name,
     sire_id    |-> payload.sire_id,
     dam_id     |-> payload.dam_id,
     source_url |-> payload.source_url,
     notes      |-> payload.notes]

(***************************************************************************)
(* POST /dogs                                                              *)
(***************************************************************************)
\* create_dog as an upsert keyed by name: a record of that name is
\* overwritten in place and its identifier returned again.
create_dog_upsertByName(payload) ==
    LET same == {i \in 1..Len(store) : store[i].name = payload.name}
    IN  IF ~DogValid(payload)
        THEN /\ resp' = [op |-> "create_dog", payload |-> payload, status |-> 422]
             /\ UNCHANGED store
        ELSE IF same # {}
        THEN LET i == CHOOSE k \in same : TRUE
             IN  /\ store' = [store EXCEPT ![i] = [_id |-> store[i]._id] @@ Dog(payload)]
                 /\ resp' = [op |-> "create_dog", payload |-> payload,
                             status |-> 200, id |-> ObjectIdStr(store[i]._id)]
        ELSE LET r == create_document(store, Dog(payload))
             IN  /\ store' = r.store
                 /\ resp' = [op |-> "create_dog", payload |-> payload,
                             status |-> 200, id |-> r.id]

create_dog(payload) ==
    IF ~DogValid(payload)
    THEN /\ resp' = [op |-> "create_dog", payload |-> payload, status |-> 422]
         /\ UNCHANGED store
    ELSE LET r == create_document(store, Dog(payload))
         IN  /\ store' = r.store
             /\ resp' = [op |-> "create_dog", payload |-> payload,
                         status |-> 200, id |-> r.id]

(***************************************************************************)
(* GET /dogs/{dog_id}                                                      *)
(***************************************************************************)
\* get_dog with the "not found" error raised inside the try block, where
\* "except Exception" turns it into the "invalid identifier" error.
get_dog_notFoundInsideTry(dog_id) ==
    /\ UNCHANGED store
    /\ IF ~ObjectIdValid(dog_id) \/ find_one(store, ObjectId(dog_id)) = NoDoc
       THEN resp' = [op |-> "get_dog", dog_id |-> dog_id, status |-> 400,
                     detail |-> "Invalid ID"]
       ELSE resp' = [op |-> "get_dog", dog_id |-> dog_id, status |-> 200,
                     body |-> to_public(find_one(store, ObjectId(dog_id)))]

get_dog(dog_id) ==
    /\ UNCHANGED store
    /\ IF ~ObjectIdValid(dog_id)
       THEN resp' = [op |-> "get_dog", dog_id |-> dog_id, status |-> 400,
                     detail |-> "Invalid ID"]
       ELSE LET doc == find_one(store, ObjectId(dog_id))
            IN  IF doc = NoDoc
                THEN resp' = [op |-> "get_dog", dog_id |-> dog_id, status |-> 404,
                              detail |-> "Dog not found"]
                ELSE resp' = [op |-> "get_dog", dog_id |-> dog_id, status |-> 200,
                              body |-> to_public(doc)]

(***************************************************************************)
(* GET /pedigree/{dog_id}?depth=                                           *)
(***************************************************************************)
RECURSIVE fetch(_, _, _, _)

\* fetch_branch looking the parent up by the text of the reference, not by
\* ObjectId(nid): a reference spelled in upper case finds nothing.
fetch_branch_textKey(s, nid, level, depth) ==
    IF ~Truthy(nid)
    THEN [tree |-> Null, lookups |-> 0]
    ELSE IF ~ObjectIdValid(nid)
    THEN [tree |-> Null, lookups |-> 0]
    ELSE LET target == find_one(s, nid)
         IN  IF target = NoDoc
             THEN [tree |-> Null, lookups |-> 1]
             ELSE LET sub == fetch(s, target, level + 1, depth)
                  IN  [tree |-> sub.tree, lookups |-> 1 + sub.lookups]

\* fetch_branch that returns the parent found without recursing into it.
fetch_branch_flat(s, nid, level, depth) ==
    IF ~Truthy(nid)
    THEN [tree |-> Null, lookups |-> 0]
    ELSE IF ~ObjectIdValid(nid)
    THEN [tree |-> Null, lookups |-> 0]
    ELSE LET target == find_one(s, ObjectId(nid))
         IN  IF target = NoDoc
             THEN [tree |-> Null, lookups |-> 1]
             ELSE [tree |-> to_public(target), lookups |-> 1]

\* One iteration of "for rel in [sire_id, dam_id]" of fetch: the value put
\* under the key rel[:-3], and the find_one calls issued for it.
fetch_branch(s, nid, level, depth) ==
    IF ~Truthy(nid)
    THEN [tree |-> Null, lookups |-> 0]
    ELSE IF ~ObjectIdValid(nid)
    THEN [tree |-> Null, lookups |-> 0]             \* except Exception
    ELSE LET target == find_one(s, ObjectId(nid))
         IN  IF target = NoDoc
             THEN [tree |-> Null, lookups |-> 1]
             ELSE LET sub == fetch(s, target, level + 1, depth)
                  IN  [tree |-> sub.tree, lookups |-> 1 + sub.lookups]

\* fetch with the depth test off by one (level > depth): one generation more.
fetch_levelAboveDepth(s, node, level, depth) ==
    IF level > depth
    THEN [tree |-> to_public(node), lookups |-> 0]
    ELSE LET sire == fetch_branch(s, node.sire_id, level, depth)
             dam  == fetch_branch(s, node.dam_id, level, depth)
         IN  [tree    |-> to_public(node) @@ [sire |-> sire.tree, dam |-> dam.tree],
              lookups |-> sire.lookups + dam.lookups]

\* fetch(node, level) of get_pedigree, with depth and the collection made
\* explicit; lookups counts the find_one calls the recursion issues.
fetch(s, node, level, depth) ==
    IF level >= depth
    THEN [tree |-> to_public(node), lookups |-> 0]
    ELSE LET sire == fetch_branch(s, node.sire_id, level, depth)
             dam  == fetch_branch(s, node.dam_id, level, depth)
         IN  [tree    |-> to_public(node) @@ [sire |-> sire.tree, dam |-> dam.tree],
              lookups |-> sire.lookups + dam.lookups]

\* get_pedigree without the try block around the root lookup: InvalidId
\* escapes the handler and the framework answers 500.
get_pedigree_uncaught(dog_id, depth) ==
    /\ UNCHANGED store
    /\ IF ~ObjectIdValid(dog_id)
       THEN resp' = [op |-> "get_pedigree", dog_id |-> dog_id, depth |-> depth,
                     status |-> 500, detail |-> "Internal Server Error"]
       ELSE LET root == find_one(store, ObjectId(dog_id))
            IN  IF root = NoDoc
                THEN resp' = [op |-> "get_pedigree", dog_id |-> dog_id,
                              depth |-> depth, status |-> 404,
                              detail |-> "Dog not found"]
                ELSE LET r == fetch(store, root, 0, depth)
                     IN  resp' = [op |-> "get_pedigree", dog_id |-> dog_id,
                                  depth |-> depth, status |-> 200,
                                  body |-> r.tree, lookups |-> r.lookups]

get_pedigree(dog_id, depth) ==
    /\ UNCHANGED store
    /\ IF ~ObjectIdValid(dog_id)
       THEN resp' = [op |-> "get_pedigree", dog_id |-> dog_id, depth |-> depth,
                     status |-> 400, detail |-> "Invalid ID"]
       ELSE LET root == find_one(store, ObjectId(dog_id))
            IN  IF root = NoDoc
                THEN resp' = [op |-> "get_pedigree", dog_id |-> dog_id,
                              depth |-> depth, status |-> 404,
                              detail |-> "Dog not found"]
                ELSE LET r == fetch(store, root, 0, depth)
                     IN  resp' = [op |-> "get_pedigree", dog_id |-> dog_id,
                                  depth |-> depth, status |-> 200,
                                  body |-> r.tree, lookups |-> r.lookups]

(***************************************************************************)
(* GET /dogs?q=&limit=                                                     *)
(***************************************************************************)
\* One pattern character against one subject character under {"$regex": q,
\* "$options": "i"}: "." matches any character, a letter matches itself in
\* either case.
regex_char(p, c) == p = "." \/ LowerChar(p) = LowerChar(c)

\* The unanchored search of pattern q in text t.
regex_search(q, t) ==
    \E k \in 0..(Len(t) - Len(q)) :
        \A i \in 1..Len(q) : regex_char(q[i], t[k + i])

\* name_filter with the pattern dropped: the query carries no name filter.
name_filter_dropped(q) == [regex |-> None]

\* The filter list_dogs builds from q.
name_filter(q) ==
    IF Truthy(q) THEN [regex |-> q, options |-> "i"] ELSE [regex |-> None]

\* Whether a document satisfies a filter of list_dogs.
filter_matches(filt, doc) ==
    filt.regex = None \/ regex_search(filt.regex, doc.name)

\* get_documents("dog", filt, limit): at most limit matching documents, in
\* the store's order.
get_documents(s, filt, limit) ==
    LET hits == SelectSeq(s, LAMBDA d : filter_matches(filt, d))
    IN  SubSeq(hits, 1, IF Len(hits) < limit THEN Len(hits) ELSE limit)

list_dogs(q, limit) ==
    /\ UNCHANGED store
    /\ LET docs == get_documents(store, name_filter(q), limit)
       IN  resp' = [op |-> "list_dogs", q |-> q, limit |-> limit, status |-> 200,
                    body |-> [i \in 1..Len(docs) |-> to_public(docs[i])]]

(***************************************************************************)
(* POST /import?url=                                                       *)
(***************************************************************************)
Whitespace == {" "}

\* The index of the first "- " in t, 0 when there is none.
sep_index(t) ==
    LET at == {i \in 1..(Len(t) - 1) : t[i] = "-" /\ t[i + 1] = " "}
    IN  IF at = {} THEN 0 ELSE CHOOSE i \in at : \A j \in at : i <= j

\* title.split("- ")[0]
split_first(t) ==
    IF sep_index(t) = 0 THEN t ELSE SubSeq(t, 1, sep_index(t) - 1)

\* str.strip()
strip(t) ==
    LET keep == {i \in 1..Len(t) : t[i] \notin Whitespace}
    IN  IF keep = {} THEN <<>>
        ELSE SubSeq(t, CHOOSE i \in keep : \A j \in keep : i <= j,
                       CHOOSE i \in keep : \A j \in keep : j <= i)

Placeholder == <<"Imported Dog">>

ImportNote == <<"Imported from APBT Online Pedigrees (metadata only)">>

\* import_name without the strip() of the text before the separator.
import_name_unstripped(page) ==
    LET parsed == IF page.raises THEN None
                  ELSE IF Truthy(page.title) THEN split_first(page.title)
                  ELSE None
    IN  IF Truthy(parsed) THEN parsed ELSE Placeholder

\* The name import_from_op derives from a fetched page: page.raises says
\* that BeautifulSoup or the title access raised (name stays None),
\* page.title is soup.title.string (None without a title).
import_name(page) ==
    LET parsed == IF page.raises THEN None
                  ELSE IF Truthy(page.title) THEN strip(split_first(page.title))
                  ELSE None
    IN  IF Truthy(parsed) THEN parsed ELSE Placeholder

import_from_op(url, page) ==
    IF ~page.fetched
    THEN /\ resp' = [op |-> "import_from_op", url |-> url, page |-> page,
                     status |-> 400, detail |-> "Failed to fetch"]
         /\ UNCHANGED store
    ELSE LET name == import_name(page)
             r == create_document(store,
                     Dog([name |-> name, sire_id |-> None, dam_id |-> None,
                          source_url |-> url, notes |-> ImportNote]))
         IN  /\ store' = r.store
             /\ resp' = [op |-> "import_from_op", url |-> url, page |-> page,
                         status |-> 200, id |-> r.id, name |-> name]

(***************************************************************************)
(* Requests.                                                               *)
(***************************************************************************)
SeqsUpTo(S, n) == UNION {[1..k -> S] : k \in 0..n}

UpperChar(c) ==
    CASE c = "a" -> "A"
      [] c = "b" -> "B"
      [] c = "c" -> "C"
      [] c = "d" -> "D"
      [] c = "e" -> "E"
      [] c = "f" -> "F"
      [] OTHER -> c

Upper(s) == [i \in 1..Len(s) |-> UpperChar(s[i])]

\* The text of the identifier of the k-th record.
OidText(k) == ObjectIdStr(NewObjectId(k))

\* Malformed identifiers: a character that is no hexadecimal digit, and
\* hexadecimal digits of the wrong number.
NotHex == [i \in 1..OidLen |-> "z"]

TooShort == SubSeq(OidText(1), 1, OidLen - 1)

TooLong == Append(OidText(1), "1")

\* Path identifiers of a request against a collection of at most n records:
\* every record's, one no record has, an upper-case spelling, malformed ones.
PathIds(n) ==
    {OidText(k) : k \in 1..(n + 1)} \cup {Upper(OidText(1)), NotHex, TooShort, TooLong}

Depths == (0 - 1)..MaxDepth

Rex == <<"R", "e", "x">>

\* Names of the search specification: empty, with an upper-case letter, with
\* a literal full stop.
Names == {<<>>, Rex, <<"r", ".", "x">>}

PatternChars == {"r", "E", "."}

\* The q of a list request: absent, or a text of at most n characters.
Patterns(n) == {None} \cup SeqsUpTo(PatternChars, n)

Urls == {<<"http://apbt.online-pedigrees.com/dog/1">>}

TitleChars == {"R", " ", "-"}

\* What requests.get and the parse can give: a failed fetch, a page whose
\* parse raises, and a page that has no title or a title of at most n
\* characters.
Pages(n) ==
    {[fetched |-> FALSE, raises |-> FALSE, title |-> None],
     [fetched |-> TRUE, raises |-> TRUE, title |-> None]}
    \cup [fetched : {TRUE}, raises : {FALSE}, title : {None} \cup SeqsUpTo(TitleChars, n)]

Payloads(names, sires, dams) ==
    [name : names, sire_id : sires, dam_id : dams, source_url : {None}, notes : {None}]

\* Parent references of the pedigree specification: absent (None for a sire,
\* the empty text for a dam), malformed, and the identifiers of the first two
\* records, the first spelled in lower case for a sire, in upper for a dam.
SireRefs == {None, NotHex, OidText(1), OidText(2)}

DamRefs == {<<>>, NotHex, Upper(OidText(1)), OidText(2)}

Init ==
    /\ store = <<>>
    /\ resp = [op |-> "none", status |-> 0]

(***************************************************************************)
(* Spec: the five operations of the API.                                   *)
(***************************************************************************)
Create ==
    /\ Len(store) < MaxDogs
    /\ \E p \in Payloads({None, <<>>, Rex}, {None, OidText(1)}, {None}) : create_dog(p)

Import ==
    /\ Len(store) < MaxDogs
    /\ \E u \in Urls, page \in Pages(1) : import_from_op(u, page)

List == \E q \in Patterns(1), limit \in 1..MaxLimit : list_dogs(q, limit)

Get == \E id \in PathIds(MaxDogs) : get_dog(id)

Pedigree == \E id \in PathIds(MaxDogs), depth \in Depths : get_pedigree(id, depth)

Next == Create \/ Import \/ List \/ Get \/ Pedigree

Spec == Init /\ [][Next]_vars

(***************************************************************************)
(* SpecPedigree: records with every kind of parent reference.              *)
(***************************************************************************)
CreateWithParents ==
    /\ Len(store) < MaxDogs
    /\ \E p \in Payloads({Rex}, SireRefs, DamRefs) : create_dog(p)

PedigreeOfRecord ==
    \E k \in 1..MaxDogs, depth \in Depths : get_pedigree(OidText(k), depth)

NextPedigree == CreateWithParents \/ PedigreeOfRecord

SpecPedigree == Init /\ [][NextPedigree]_vars

(***************************************************************************)
(* SpecChain: records with a sire only, pedigrees along the sire line.     *)
(***************************************************************************)
CreateWithSire ==
    /\ Len(store) < MaxChain + 1
    /\ \E p \in Payloads({Rex}, {None} \cup {OidText(k) : k \in 1..MaxChain}, {None}) :
           create_dog(p)

PedigreeOfChain ==
    \E k \in 1..(MaxChain + 1), depth \in 0..MaxDepth : get_pedigree(OidText(k), depth)

NextChain == CreateWithSire \/ PedigreeOfChain

SpecChain == Init /\ [][NextChain]_vars

(***************************************************************************)
(* SpecSearch: records of every name, searches with every short pattern.   *)
(***************************************************************************)
CreateNamed ==
    /\ Len(store) < MaxDogs
    /\ \E p \in Payloads(Names, {None}, {None}) : create_dog(p)

Search == \E q \in Patterns(MaxPatternLen), limit \in 1..MaxLimit : list_dogs(q, limit)

NextSearch == CreateNamed \/ Search

SpecSearch == Init /\ [][NextSearch]_vars

(***************************************************************************)
(* SpecImport: imports of pages with every short title.                    *)
(***************************************************************************)
ImportPage ==
    /\ Len(store) < MaxDogs
    /\ \E u \in Urls, page \in Pages(MaxTitleLen) : import_from_op(u, page)

NextImport == ImportPage

SpecImport == Init /\ [][NextImport]_vars

(***************************************************************************)
(* Vocabulary of the properties.                                           *)
(***************************************************************************)
Min(a, b) == IF a < b THEN a ELSE b

Max(a, b) == IF a < b THEN b ELSE a

RECURSIVE Pow2(_)
Pow2(n) == IF n <= 0 THEN 1 ELSE 2 * Pow2(n - 1)

\* A key of a tree node that holds a nested tree (not null, not missing).
HasChild(t, key) == key \in DOMAIN t /\ t[key] # Null

\* The number of non-null "sire" levels below the root of a tree.
RECURSIVE SireLevels(_)
SireLevels(t) == IF HasChild(t, "sire") THEN 1 + SireLevels(t.sire) ELSE 0

\* The number N of sire ancestors of record i when the records on its sire
\* line form a chain (each created before its child and named by the
\* identifier its creation returned, none with a dam, the first without a
\* sire), and -1 when they do not.
RECURSIVE ChainOf(_)
ChainOf(i) ==
    LET d == store[i]
        earlier == {j \in 1..(i - 1) : d.sire_id = OidText(j)}
    IN  IF d.dam_id # None THEN 0 - 1
        ELSE IF d.sire_id = None THEN 0
        ELSE IF earlier = {} THEN 0 - 1
        ELSE LET n == ChainOf(CHOOSE j \in earlier : TRUE)
             IN  IF n < 0 THEN n ELSE n + 1

\* The records whose identifier a request named as returned by create.
Named(id) == {i \in 1..Len(store) : id = OidText(i)}

(***************************************************************************)
(* C1: the pedigree of the last dog of a sire chain of N + 1 dogs, asked   *)
(* with depth D >= 0, is returned and has exactly min(D, N) non-null sire  *)
(* levels below the root; the level after those is null or missing.        *)
(***************************************************************************)
C1_SireChainLevels ==
    (resp.op = "get_pedigree" /\ resp.depth >= 0)
    => \A i \in Named(resp.dog_id) :
           ChainOf(i) >= 0
           => /\ resp.status = 200
              /\ SireLevels(resp.body) = Min(resp.depth, ChainOf(i))

\* A chain of two ancestors resolved in full by a request of depth 2.
C1_Witness ==
    /\ resp.op = "get_pedigree"
    /\ resp.status = 200
    /\ resp.depth = 2
    /\ \E i \in Named(resp.dog_id) : ChainOf(i) = 2
    /\ SireLevels(resp.body) = 2

(***************************************************************************)
(* C2: every node of a returned pedigree tree, the nodes at level = depth  *)
(* and the root of a depth 0 request included, carries both keys "sire"    *)
(* and "dam", each a nested tree or null.                                  *)
(***************************************************************************)
RECURSIVE BothKeysEverywhere(_)
BothKeysEverywhere(t) ==
    /\ {"sire", "dam"} \subseteq DOMAIN t
    /\ \A key \in {"sire", "dam"} : t[key] # Null => BothKeysEverywhere(t[key])

C2_EveryNodeHasBothKeys ==
    (resp.op = "get_pedigree" /\ resp.status = 200 /\ resp.depth >= 0)
    => BothKeysEverywhere(resp.body)

(***************************************************************************)
(* C3: GET /dogs/{id} answers 400 to an id that is no well-formed          *)
(* identifier, 404 to a well-formed id no record has, and the public form  *)
(* of the record to the id of a record.                                    *)
(***************************************************************************)
\* A text of OidLen hexadecimal digits of either case.
WellFormedId(id) ==
    /\ Len(id) = OidLen
    /\ \A i \in 1..Len(id) : id[i] \in HexDigits \cup {"A", "B", "C", "D", "E", "F"}

\* The records whose identifier is spelled by id, in either case.
Holders(id) == {i \in 1..Len(store) : ObjectIdStr(store[i]._id) = Lower(id)}

\* body is the public form of doc: "_id" renamed to "id" and given as text,
\* every other field unchanged.
IsPublicForm(body, doc) ==
    /\ DOMAIN body = (DOMAIN doc \ {"_id"}) \cup {"id"}
    /\ body.id = ObjectIdStr(doc._id)
    /\ \A f \in DOMAIN doc \ {"_id"} : body[f] = doc[f]

C3_GetDogOutcomes ==
    resp.op = "get_dog"
    => /\ ~WellFormedId(resp.dog_id) => resp.status = 400
       /\ (WellFormedId(resp.dog_id) /\ Holders(resp.dog_id) = {}) => resp.status = 404
       /\ (WellFormedId(resp.dog_id) /\ Holders(resp.dog_id) # {})
          => /\ resp.status = 200
             /\ \E i \in Holders(resp.dog_id) : IsPublicForm(resp.body, store[i])

\* A well-formed identifier that no record of a non-empty collection has.
C3_Witness ==
    /\ resp.op = "get_dog"
    /\ store # <<>>
    /\ WellFormedId(resp.dog_id)
    /\ Holders(resp.dog_id) = {}
    /\ resp.status = 404

(***************************************************************************)
(* C4 as claimed: GET /pedigree/{id} answers 404 to every root id that     *)
(* resolves to no record, malformed ids included.                          *)
(***************************************************************************)
RootUnresolved == ~WellFormedId(resp.dog_id) \/ Holders(resp.dog_id) = {}

C4_UnresolvedRootIs404 ==
    (resp.op = "get_pedigree" /\ RootUnresolved) => resp.status = 404

(***************************************************************************)
(* C4 as amended: GET /pedigree/{id} answers 404 to a well-formed root id  *)
(* no record has and 400 to a malformed one; in neither case a tree or a   *)
(* 500.                                                                    *)
(***************************************************************************)
C4_UnresolvedRootIsClientError ==
    (resp.op = "get_pedigree" /\ RootUnresolved)
    => /\ resp.status = (IF WellFormedId(resp.dog_id) THEN 404 ELSE 400)
       /\ "body" \notin DOMAIN resp

\* A malformed root id answered with 400.
C4_Witness ==
    /\ resp.op = "get_pedigree"
    /\ ~WellFormedId(resp.dog_id)
    /\ resp.status = 400

(***************************************************************************)
(* C5: the stored records always have pairwise distinct ids; a successful  *)
(* create or import returns an id no record had before, the id of a record *)
(* it has added; and no step of any of the five operations changes or      *)
(* removes a record that is stored.                                        *)
(***************************************************************************)
DistinctIds ==
    \A i, j \in 1..Len(store) : i # j => store[i]._id # store[j]._id

\* Every record stored before the step is stored after it, unchanged.
RecordsKept == \A i \in 1..Len(store) : \E j \in 1..Len(store') : store'[j] = store[i]

\* A step answered by a successful create or import returned a new id.
FreshIdReturned ==
    (resp'.op \in {"create_dog", "import_from_op"} /\ resp'.status = 200)
    => /\ \A i \in 1..Len(store) : ObjectIdStr(store[i]._id) # resp'.id
       /\ \E j \in 1..Len(store') : ObjectIdStr(store'[j]._id) = resp'.id

C5_UniqueStableIds == []DistinctIds /\ [][RecordsKept /\ FreshIdReturned]_vars

\* Two records created with the same name, under two ids.
C5_Witness ==
    /\ Len(store) = 2
    /\ store[1].name = store[2].name
    /\ store[1]._id # store[2]._id
    /\ resp.op = "create_dog"
    /\ resp.status = 200
    /\ resp.id = ObjectIdStr(store[2]._id)

(***************************************************************************)
(* C6: every stored record has a name that is present and not empty.       *)
(***************************************************************************)
C6_NamesNonEmpty ==
    \A i \in 1..Len(store) : store[i].name # None /\ store[i].name # <<>>

(***************************************************************************)
(* C7 as claimed: a list request with a pattern q returns only records     *)
(* whose name contains q as a literal substring, compared without regard   *)
(* to case (a "." of q matching only a "."), never more than limit         *)
(* records; without q, or with an empty q, it applies no name filter.      *)
(***************************************************************************)
\* t contains q literally, letters compared without regard to case.
ContainsLiteral(t, q) ==
    \E k \in 0..(Len(t) - Len(q)) :
        \A i \in 1..Len(q) : LowerChar(q[i]) = LowerChar(t[k + i])

\* t contains a stretch that agrees with q, without regard to case, at every
\* position where q has no ".".
ContainsPattern(t, q) ==
    \E k \in 0..(Len(t) - Len(q)) :
        \A i \in 1..Len(q) : q[i] # "." => LowerChar(q[i]) = LowerChar(t[k + i])

\* The response holds public forms of stored records, at most limit of them,
\* and as many as are stored (up to limit) when no pattern is given.
ListedWithinLimit ==
    /\ Len(resp.body) <= resp.limit
    /\ \A n \in 1..Len(resp.body) :
           \E i \in 1..Len(store) : IsPublicForm(resp.body[n], store[i])
    /\ ~Truthy(resp.q) => Len(resp.body) = Min(resp.limit, Len(store))

IsBeforeFirstSep(p, t) ==
    /\ Len(p) <= Len(t)
    /\ p = SubSeq(t, 1, Len(p))
    /\ \/ Len(p) = Len(t)
       \/ /\ Len(p) + 2 <= Len(t)
          /\ t[Len(p) + 1] = "-"
          /\ t[Len(p) + 2] = " "
    /\ \A i \in 1..Len(p) : ~(i < Len(t) /\ t[i] = "-" /\ t[i + 1] = " ")

\* n is p without its leading and trailing blanks.
IsStripped(n, p) ==
    /\ n = <<>> \/ (n[1] # " " /\ n[Len(n)] # " ")
    /\ \E a \in 0..Len(p) :
           /\ a + Len(n) <= Len(p)
           /\ n = SubSeq(p, a + 1, a + Len(n))
           /\ \A i \in (1..a) \cup ((a + Len(n) + 1)..Len(p)) : p[i] = " "

\* name is the name the claim gives a record imported from page.
IsImportedName(name, page) ==
    IF page.raises \/ page.title = None
    THEN name = Placeholder
    ELSE \E k \in 0..Len(page.title) :
             /\ IsBeforeFirstSep(SubSeq(page.title, 1, k), page.title)
             /\ \E a \in 0..k :
                    \E m \in 0..(k - a) :
                        LET n == SubSeq(page.title, a + 1, a + m)
                        IN  /\ IsStripped(n, SubSeq(page.title, 1, k))
                            /\ name = (IF m = 0 THEN Placeholder ELSE n)

ImportStep ==
    resp'.op = "import_from_op"
    => IF ~resp'.page.fetched
       THEN resp'.status = 400 /\ store' = store
       ELSE /\ resp'.status = 200
            /\ Len(store') = Len(store) + 1
            /\ SubSeq(store', 1, Len(store)) = store
            /\ LET new == store'[Len(store')]
               IN  /\ new.source_url = resp'.url
                   /\ new.notes = ImportNote
                   /\ IsImportedName(new.name, resp'.page)
                   /\ resp'.name = new.name
                   /\ resp'.id = ObjectIdStr(new._id)

C8_ImportOutcomes == [][ImportStep]_vars

\* A record imported from the title "R- ": its name is "R".
C8_Witness ==
    /\ resp.op = "import_from_op"
    /\ resp.status = 200
    /\ resp.page.title = <<"R", "-", " ">>
    /\ resp.name = <<"R">>
    /\ store[Len(store)].name = <<"R">>
    /\ store[Len(store)].source_url = resp.url

(***************************************************************************)
(* C9: in a pedigree of an existing root, every node at a level below      *)
(* depth has, for sire and for dam, null when the reference is absent,     *)
(* malformed or names no record, and otherwise the tree of the record the  *)
(* reference names; the request succeeds whatever the references are.      *)
(***************************************************************************)
\* The reference is present, well formed and names a record.
Resolves(ref) == Truthy(ref) /\ WellFormedId(ref) /\ Holders(ref) # {}

\* t is the tree of record doc at the given level: its public fields and,
\* below depth, one branch per parent as the claim describes it.
RECURSIVE IsTreeOf(_, _, _, _)
IsTreeOf(t, doc, level, depth) ==
    /\ \A f \in DOMAIN to_public(doc) : f \in DOMAIN t /\ t[f] = to_public(doc)[f]
    /\ level < depth
       => \A rel \in {"sire", "dam"} :
              LET ref == IF rel = "sire" THEN doc.sire_id ELSE doc.dam_id
              IN  /\ rel \in DOMAIN t
                  /\ IF Resolves(ref)
                     THEN /\ t[rel] # Null
                          /\ \E i \in Holders(ref) :
                                 IsTreeOf(t[rel], store[i], level + 1, depth)
                     ELSE t[rel] = Null

C9_BranchPerReference ==
    (resp.op = "get_pedigree" /\ Holders(resp.dog_id) # {} /\ WellFormedId(resp.dog_id))
    => /\ resp.status = 200
       /\ \E i \in Holders(resp.dog_id) : IsTreeOf(resp.body, store[i], 0, resp.depth)

\* A root with a malformed sire reference and a dam reference, spelled in
\* upper case, that resolves: the sire branch is null, the dam branch is the
\* tree of the first record, whose own absent sire reference gives null.
C9_Witness ==
    /\ resp.op = "get_pedigree"
    /\ resp.status = 200
    /\ resp.depth = 2
    /\ resp.dog_id = OidText(2)
    /\ resp.body.sire_id = NotHex
    /\ resp.body.sire = Null
    /\ resp.body.dam_id = Upper(OidText(1))
    /\ HasChild(resp.body, "dam")
    /\ resp.body.dam.id = OidText(1)
    /\ resp.body.dam.sire_id = None
    /\ resp.body.dam.sire = Null

(***************************************************************************)
(* C10: a pedigree request on an existing root returns, cycles among the   *)
(* references or not, for every depth: no node of the tree lies deeper     *)
(* than max(depth, 0), and at most 2^(depth+1) - 2 lookups follow the      *)
(* root's (none when depth <= 0).                                          *)
(***************************************************************************)
\* The level of the deepest node of a tree, the root being at level 0.
RECURSIVE Height(_)
Height(t) ==
    LET kids == {key \in {"sire", "dam"} : HasChild(t, key)}
    IN  IF kids = {} THEN 0
        ELSE 1 + Max(IF "sire" \in kids THEN Height(t.sire) ELSE 0,
                     IF "dam" \in kids THEN Height(t.dam) ELSE 0)

LookupBound(depth) == IF depth <= 0 THEN 0 ELSE Pow2(depth + 1) - 2

C10_DepthBoundsTheWalk ==
    (resp.op = "get_pedigree" /\ Holders(resp.dog_id) # {} /\ WellFormedId(resp.dog_id))
    => /\ resp.status = 200
       /\ Height(resp.body) <= Max(resp.depth, 0)
       /\ resp.lookups <= LookupBound(resp.depth)

\* A record that is its own sire and its own dam, walked to depth 2: a full
\* tree, with as many lookups as the bound allows.
C10_Witness ==
    /\ resp.op = "get_pedigree"
    /\ resp.status = 200
    /\ resp.depth = 2
    /\ resp.body.id = OidText(1)
    /\ resp.body.sire_id = OidText(1)
    /\ resp.body.dam_id = Upper(OidText(1))
    /\ Height(resp.body) = 2
    /\ resp.lookups = LookupBound(2)

====
